---------------------------- MODULE Spec2Model ----------------------------
(***************************************************************************)
(* Model of the two frame pipelines of iris-traffic-system:                *)
(*                                                                         *)
(*   - the sampled-file session of irisv3/backend (stream_video_analysis   *)
(*     in video_processing.py, called from main.py's websocket_analyze,    *)
(*     with gemini_service.analyze_frames as its analyzer), and            *)
(*   - the feed worker of magicbox-node (BaseWorker in base/worker.py and  *)
(*     YOLODetectorWorker in yolo_detector/main.py).                       *)
(*                                                                         *)
(* The two are separate processes.  SessionSpec runs the session with the  *)
(* worker's variables frozen, WorkerSpec runs the worker with the          *)
(* session's variables frozen as long as no stop signal arrives, and       *)
(* LifecycleSpec adds the signal and the shutdown.                         *)
(***************************************************************************)
EXTENDS Integers, Sequences, FiniteSets, TLC

(***************************************************************************)
(* Bounds of the model.                                                    *)
(***************************************************************************)
\* native frame counts 0..MaxFrames of the small media
MaxFrames == 7

\* deliveries of upstream messages to the worker's subscriptions in one run
MaxMsgs == 3

\* deliveries of upstream messages in a run that is sent stop signals
MaxStopMsgs == 2

\* stop signals (SIGINT, SIGTERM) delivered to one worker
MaxSignals == 2

\* characters of a free_space text of the analyzer's answer
MaxText == 4

\* seconds the clock advances past the worker's construction
MaxClock == 2

\* alert_cooldown ranges over 0..MaxCooldown seconds
MaxCooldown == 2

\* native frames of a medium served to one of two concurrent sessions
MaxNative == 5

(***************************************************************************)
(* Python values.  A dict is a function from its keys; every value is a    *)
(* record of one shape: an int, a str (its characters, or one opaque       *)
(* token for a text that is only passed through) or a list of str.         *)
(***************************************************************************)
IntV(i) == [kind |-> "int", n |-> i, s |-> <<>>]

StrV(cs) == [kind |-> "str", n |-> 0, s |-> cs]

ListV(xs) == [kind |-> "list", n |-> 0, s |-> xs]

EmptyDict == [k \in {} |-> IntV(0)]

\* d[k] = v on a dict
Put(d, k, v) == [x \in (DOMAIN d) \cup {k} |-> IF x = k THEN v ELSE d[x]]

\* d.get(k, default)
Get(d, k, default) == IF k \in DOMAIN d THEN d[k] ELSE default

(***************************************************************************)
(* str.replace("%", ""), str.strip() and int(str) on character sequences.  *)
(***************************************************************************)
Digits == <<"0", "1", "2", "3", "4", "5", "6", "7", "8", "9">>

IsDigit(c) == \E i \in 1..Len(Digits) : Digits[i] = c

DigitVal(c) == (CHOOSE i \in 1..Len(Digits) : Digits[i] = c) - 1

\* variant: the '%' is left in the text
RemovePercent_Kept(cs) == cs

RemovePercent(cs) == SelectSeq(cs, LAMBDA c : c # "%")

RECURSIVE LStrip(_)
LStrip(cs) == IF cs # <<>> /\ Head(cs) = " " THEN LStrip(Tail(cs)) ELSE cs

RECURSIVE RStrip(_)
RStrip(cs) ==
    IF cs # <<>> /\ cs[Len(cs)] = " " THEN RStrip(SubSeq(cs, 1, Len(cs) - 1)) ELSE cs

Strip(cs) == RStrip(LStrip(cs))

Unsigned(cs) == IF cs # <<>> /\ Head(cs) \in {"+", "-"} THEN Tail(cs) ELSE cs

\* int(cs) does not raise ValueError
IsIntLiteral(cs) ==
    /\ Unsigned(cs) # <<>>
    /\ \A i \in 1..Len(Unsigned(cs)) : IsDigit(Unsigned(cs)[i])

RECURSIVE DecimalValue(_)
DecimalValue(ds) ==
    IF ds = <<>> THEN 0
    ELSE 10 * DecimalValue(SubSeq(ds, 1, Len(ds) - 1)) + DigitVal(ds[Len(ds)])

IntOfStr(cs) ==
    IF Head(cs) = "-" THEN 0 - DecimalValue(Unsigned(cs)) ELSE DecimalValue(Unsigned(cs))

(***************************************************************************)
(* gemini_service.analyze_frames.                                          *)
(***************************************************************************)
Tok(t) == StrV(<<t>>)

\* the stub returned when GENAI_API_KEY is not set
KeyMissingStub ==
    [count |-> IntV(0), density |-> Tok("unknown"), movement |-> Tok("unknown"),
     behavior |-> Tok("Simulated: API Key missing"), alerts |-> ListV(<<>>)]

\* the stub returned when none of the image paths exists
NoImagesStub ==
    [count |-> IntV(0), density |-> Tok("error"), movement |-> Tok("error"),
     behavior |-> Tok("No images"), alerts |-> ListV(<<"Image Error">>)]

\* the stub returned from the except clause (API error, unparsable response text)
ApiErrorStub ==
    [count |-> IntV(0), density |-> Tok("error"), movement |-> Tok("error"),
     behavior |-> Tok("Error processing frame"), alerts |-> ListV(<<"API Error">>)]

\* JSON objects the remote model may answer with (json.loads(text) is a dict)
ParsedObjects ==
    { [count |-> IntV(5), density |-> Tok("high"), movement |-> Tok("moving"),
       flow_rate |-> IntV(12), congestion_level |-> IntV(7), free_space |-> IntV(42),
       behavior |-> Tok("queueing"), alerts |-> ListV(<<"congestion">>),
       demographics |-> Tok("mixed ages")],
      [count |-> IntV(3), density |-> Tok("low"), movement |-> Tok("static"),
       congestion |-> IntV(2), free_space |-> StrV(<<"4", "2", "%">>),
       alerts |-> ListV(<<>>)],
      [count |-> IntV(1), density |-> Tok("low"),
       free_space |-> StrV(<<"n", "/", "a">>)] }

\* what one call of the analyzer can end in, given the temp files it is handed:
\* "dict" (with the dict), "nondict" (valid JSON that is no object) or "raise"
AnalyzerResults(key_set, paths, files) ==
    IF ~key_set
    THEN {[how |-> "dict", d |-> KeyMissingStub]}
    ELSE IF \A i \in 1..Len(paths) : paths[i] \notin files
    THEN {[how |-> "dict", d |-> NoImagesStub]}
    ELSE {[how |-> "dict", d |-> ApiErrorStub]}
         \cup {[how |-> "dict", d |-> o] : o \in ParsedObjects}
         \cup {[how |-> "nondict", d |-> EmptyDict]}

(***************************************************************************)
(* video_processing.stream_video_analysis: the normalisation of the        *)
(* analyzer's result (lines 93-105).                                       *)
(***************************************************************************)
\* variant: the key is renamed, whichever of the two names the result uses
FoldCongestion_Rename(d) ==
    LET has(k) == k \in DOMAIN d
        move(from, to) ==
            [x \in ((DOMAIN d) \ {from}) \cup {to} |-> IF x = to THEN d[from] ELSE d[x]]
    IN  IF has("congestion_level") /\ ~has("congestion")
        THEN move("congestion_level", "congestion")
        ELSE IF has("congestion") /\ ~has("congestion_level")
        THEN move("congestion", "congestion_level")
        ELSE d

FoldCongestion(d) ==
    IF "congestion_level" \in DOMAIN d /\ "congestion" \notin DOMAIN d
    THEN Put(d, "congestion", d["congestion_level"])
    ELSE d

CoerceFreeSpace(d) ==
    IF "free_space" \in DOMAIN d /\ d["free_space"].kind = "str"
    THEN LET cleaned == Strip(RemovePercent(d["free_space"].s))
         IN  IF IsIntLiteral(cleaned)
             THEN Put(d, "free_space", IntV(IntOfStr(cleaned)))
             ELSE d
    ELSE d

Normalize(d) == CoerceFreeSpace(FoldCongestion(d))

\* variant: the insight is stamped with the count after the increment
Stamp_AfterIncrement(d, fid) ==
    Put(Put(d, "timestamp", Tok("now")), "frame_id", IntV(fid + 1))

Stamp(d, fid) == Put(Put(d, "timestamp", Tok("now")), "frame_id", IntV(fid))

\* the CrowdInsight row built from a stamped insight (lines 134-146)
DbRow(filename, d, fid) ==
    [video_filename |-> filename, frame_id |-> fid,
     people_count |-> Get(d, "count", IntV(0)),
     density_label |-> Get(d, "density", Tok("unknown")),
     movement |-> Get(d, "movement", Tok("unknown")),
     flow_rate |-> Get(d, "flow_rate", IntV(0)),
     congestion_level |-> Get(d, "congestion_level", IntV(0)),
     free_space |-> Get(d, "free_space", IntV(0)),
     demographics |-> Get(d, "demographics", StrV(<<>>)),
     behavior |-> Get(d, "behavior", StrV(<<>>)),
     alerts |-> Get(d, "alerts", ListV(<<>>))]


(***************************************************************************)
(* State.                                                                  *)
(***************************************************************************)
VARIABLES
    \* ---- sampled-file session: its inputs
    video_exists,     \* os.path.exists(video_path) in websocket_analyze
    medium,           \* number of native frames of the medium
    bad_frames,       \* positions of the native frames that cap.read() cannot read
    fps10,            \* cap.get(CAP_PROP_FPS), in tenths of a frame per second
    api_key,          \* GENAI_API_KEY is set
    \* ---- sampled-file session: its state
    s_pc,             \* where the coroutine stands
    cap_pos,          \* position of cap's read pointer in the medium
    frame_interval,
    frame_count,
    frame_paths,      \* temp files of the tick being processed (their index k)
    anchor,           \* native position of the frame held in 'frame'
    insight,          \* the stamped insight of the tick being dispatched
    tmp_files,        \* /tmp/temp_gemini_<pid>_<k>.jpg files that exist
    db_open,          \* SessionLocal() not closed yet
    abort,            \* what raised out of stream_video_analysis ("none" if nothing)
    ws_state,         \* the live viewer's connection
    \* ---- sampled-file session: what the sinks received
    ws_sent,          \* messages sent to the live viewer, in order
    archive,          \* frame ids with a processed frame file on disk
    db_rows,          \* rows committed to the store, in order
    ticks,            \* one entry per tick that reached the analyzer
    \* ---- feed worker: its configuration
    cameras,          \* the cameras list given to the constructor
    alert_cooldown,
    \* ---- feed worker: its state
    w_pc,             \* where run() stands
    running,
    nc_connected,     \* self.nc is set and not closed
    subscriptions,    \* the subscriptions made by run(), each with the messages pending
                      \* on it and the state of its callback
    now,              \* what time.time() returned last, in seconds
    last_alert_time,  \* per camera; 0 where the dict has no entry (it is read with
                      \* .get(camera_id, 0))
    frames_processed,
    events_sent,
    handler_errors,   \* times the except clause of _handle_message ran
    \* ---- feed worker: its environment and what it did
    published,        \* deliveries of upstream messages to subscriptions so far
    gate_log,         \* per camera, one entry per frame that reached the cooldown
                      \* gate, in order
    overlay,          \* calls of _publish_detections
    posts,            \* POSTs of send_event that ended
    cancelled,        \* callbacks cancelled in flight
    run_log,          \* what run() has done so far, in order
    signals,          \* the stop signals delivered since run() was entered: the phase
                      \* run() was in at each
    stop_seq,         \* deliveries made before the first of them; NoStop if none
    early_signal,     \* a stop signal was delivered before run() was entered
    \* ---- the normalisation step on its own
    n_raw,            \* the dict the analyzer returned
    n_insight,        \* 'insight' as the step left it
    n_pc,             \* "raw", "normalized", "renormalized"
    \* ---- one call of send_event on its own
    event,            \* the Event it is given
    response,         \* what the ingestion endpoint does with the POST
    request,          \* the POST it made
    success,          \* what it returned
    se_pc,            \* "called", "returned"
    \* ---- two sampled-file sessions in one process
    p_medium,         \* per session, the number of native frames of its medium
    p_interval,       \* per session, its frame_interval
    p_pc,             \* per session, where its coroutine stands
    p_pos,            \* per session, the position of cap's read pointer
    p_frame_count,    \* per session, its frame_count
    p_paths,          \* per session, its frame_paths (the index k of each path)
    p_wrote,          \* per session, what its tick wrote to each of its frame_paths
    shared_tmp,       \* what /tmp/temp_gemini_<pid>_<k>.jpg holds, for k = 0, 1, 2
    analyses          \* the analyzer calls that opened their images, in order

sessionVars ==
    <<video_exists, medium, bad_frames, fps10, api_key, s_pc, cap_pos, frame_interval, frame_count,
      frame_paths, anchor, insight, tmp_files, db_open, abort, ws_state, ws_sent,
      archive, db_rows, ticks>>

workerVars ==
    <<cameras, alert_cooldown, w_pc, running, nc_connected, subscriptions, now,
      last_alert_time, frames_processed, events_sent, handler_errors, published,
      gate_log, overlay, posts, cancelled, run_log, signals, stop_seq,
      early_signal>>

normVars == <<n_raw, n_insight, n_pc>>

sendVars == <<event, response, request, success, se_pc>>

procVars ==
    <<p_medium, p_interval, p_pc, p_pos, p_frame_count, p_paths, p_wrote, shared_tmp,
      analyses>>

vars == <<sessionVars, workerVars, normVars, sendVars, procVars>>

(***************************************************************************)
(* The sampled-file session.                                               *)
(***************************************************************************)
\* the media of the model: every short medium at a few frame rates, and the
\* 90-frame medium at 30 fps of the end-to-end scenario
FrameRates10 == {0, 5, 10, 25, 30}

Media ==
    ((0..MaxFrames) \X FrameRates10) \cup {<<90, 300>>}

\* int(fps): the frame rate truncated toward zero (fps >= 0)
IntOfFps(f10) == f10 \div 10

\* the unreadable frames of a medium of n frames: none, or one frame of a small medium
BadFrames(n) == {{}} \cup (IF n <= MaxFrames THEN {{p} : p \in 0..(n - 1)} ELSE {})

\* cap.read() with the pointer at p returns ret = True
Readable(p) == p < medium /\ p \notin bad_frames

SessionInit ==
    /\ video_exists \in BOOLEAN
    /\ \E m \in Media : medium = m[1] /\ fps10 = m[2]
    /\ bad_frames \in BadFrames(medium)
    /\ api_key \in BOOLEAN
    /\ s_pc = "accept"
    /\ cap_pos = 0
    /\ frame_interval = 0
    /\ frame_count = 0
    /\ frame_paths = <<>>
    /\ anchor = 0
    /\ insight = EmptyDict
    /\ tmp_files = {}
    /\ db_open = FALSE
    /\ abort = "none"
    /\ ws_state = "open"
    /\ ws_sent = <<>>
    /\ archive = {}
    /\ db_rows = <<>>
    /\ ticks = <<>>

\* an exception leaves stream_video_analysis: its finally closes the db session,
\* websocket_analyze logs a WebSocketDisconnect and answers anything else with
\* close(1011)
Raise(cause) ==
    /\ s_pc' = "aborted"
    /\ abort' = cause
    /\ db_open' = FALSE
    /\ ws_state' = IF cause \in {"viewer", "complete"} THEN "disconnected" ELSE "closed_1011"

\* websocket_analyze up to the call of stream_video_analysis, and that function up
\* to its loop
WebsocketAnalyze ==
    /\ UNCHANGED <<workerVars, normVars, sendVars, procVars>>
    /\ s_pc = "accept"
    /\ IF ~video_exists
       THEN /\ s_pc' = "returned"
            /\ ws_state' = "closed_4004"
            /\ UNCHANGED <<frame_interval, db_open>>
       ELSE /\ s_pc' = "loop"
            /\ frame_interval' = IntOfFps(IF fps10 = 0 THEN 300 ELSE fps10)
            /\ db_open' = TRUE
            /\ UNCHANGED ws_state
    /\ UNCHANGED <<video_exists, medium, bad_frames, fps10, api_key, cap_pos, frame_count, frame_paths,
                   anchor, insight, tmp_files, abort, ws_sent, archive, db_rows, ticks>>

\* 'frame_count % frame_interval == 0' (frame_interval is not 0)
IsTick(fc, fi) == fc % fi = 0

\* variant: the read-ahead loop is 'for k in range(3)'
ReadAhead_Three(p) == IF medium - p >= 3 THEN 3 ELSE medium - p

\* variant: a read-ahead that meets the end of the medium gives up its frames
ReadAhead_AllOrNothing(p) == IF medium - p >= 2 THEN 2 ELSE 0

\* the frames the read-ahead loop 'for k in range(2)' gets when the pointer is at p
ReadAhead(p) == IF ~Readable(p) THEN 0 ELSE IF ~Readable(p + 1) THEN 1 ELSE 2

\* how far the pointer can move over a frame it failed to read at p: not at all at
\* the end of the medium; by none or one frame at an unreadable frame
FailedReadSteps(p) == IF p \in bad_frames /\ p < medium THEN {0, 1} ELSE {0}

\* one pass of 'while cap.isOpened()' up to its first await: the read, the tick test
\* and, on a tick, the temp files and the read-ahead; 'frame_count += 1' and the
\* sleep when the frame is skipped
LoopRead ==
    /\ UNCHANGED <<workerVars, normVars, sendVars, procVars>>
    /\ s_pc = "loop"
    /\ IF ~Readable(cap_pos)
       THEN \* ret is False: break, cap.release(), then the 'complete' message
            /\ s_pc' = "complete"
            /\ UNCHANGED <<cap_pos, frame_count, frame_paths, anchor, tmp_files, db_open,
                           abort, ws_state>>
       ELSE IF frame_interval = 0
       THEN \* frame_count % 0: ZeroDivisionError
            /\ Raise("cadence")
            /\ cap_pos' = cap_pos + 1
            /\ UNCHANGED <<frame_count, frame_paths, anchor, tmp_files>>
       ELSE IF IsTick(frame_count, frame_interval)
       THEN /\ s_pc' = "analyze"
            /\ anchor' = cap_pos
            /\ LET got == ReadAhead(cap_pos + 1)
               IN  IF got = 2
                   THEN cap_pos' = cap_pos + 3
                   ELSE \E skip \in FailedReadSteps(cap_pos + 1 + got) :
                            cap_pos' = cap_pos + 1 + got + skip
            /\ frame_paths' = [k \in 1..(1 + ReadAhead(cap_pos + 1)) |-> k - 1]
            /\ tmp_files' = tmp_files \cup (0..ReadAhead(cap_pos + 1))
            /\ UNCHANGED <<frame_count, db_open, abort, ws_state>>
       ELSE /\ cap_pos' = cap_pos + 1
            /\ frame_count' = frame_count + 1
            /\ UNCHANGED <<s_pc, frame_paths, anchor, tmp_files, db_open, abort, ws_state>>
    /\ UNCHANGED <<video_exists, medium, bad_frames, fps10, api_key, frame_interval, insight, ws_sent,
                   archive, db_rows, ticks>>

\* the entry of 'ticks' for the tick in hand
TickEntry(fault) ==
    [frame_id |-> frame_count, anchor |-> anchor, window |-> Len(frame_paths),
     fault |-> fault]

\* variant: an exception of the analyzer leaves no error entry
InsightOf_Silent(r) == r.d

\* 'insight' after the try/except around the analyzer call
InsightOf(r) == IF r.how = "raise" THEN [error |-> Tok("exception")] ELSE r.d

\* the analyzer's answer arrives: normalisation, stamping, heatmap and the archive
\* file, up to the await of websocket.send_json
Analyze ==
    /\ UNCHANGED <<workerVars, normVars, sendVars, procVars>>
    /\ s_pc = "analyze"
    /\ \E r \in AnalyzerResults(api_key, frame_paths, tmp_files)
                    \cup {[how |-> "raise", d |-> EmptyDict]},
          arch \in {"written", "not_written", "raise"} :
          /\ ticks' = Append(ticks, TickEntry(
                 IF r.how = "dict"
                 THEN (IF Get(r.d, "density", Tok("")) = Tok("error") THEN "stub" ELSE "none")
                 ELSE r.how))
          /\ IF r.how = "nondict"
             THEN \* insight["timestamp"] = ... on a list, str or number: TypeError
                  /\ Raise("insight")
                  /\ UNCHANGED <<insight, archive>>
             ELSE /\ insight' = Stamp(Normalize(InsightOf(r)), frame_count)
                  /\ IF arch = "raise"
                     THEN \* os.makedirs raises OSError
                          /\ Raise("archive")
                          /\ UNCHANGED archive
                     ELSE \* cv2.imwrite returns False when it cannot write
                          /\ archive' = IF arch = "written"
                                        THEN archive \cup {frame_count} ELSE archive
                          /\ s_pc' = "send"
                          /\ UNCHANGED <<db_open, abort, ws_state>>
    /\ UNCHANGED <<video_exists, medium, bad_frames, fps10, api_key, cap_pos, frame_interval,
                   frame_count, frame_paths, anchor, tmp_files, ws_sent, db_rows>>

\* variant: the payload of a tick is typed like the terminal message
FrameMessage_Complete(d) == [type |-> "complete", insight |-> d]

FrameMessage(d) == [type |-> "frame", insight |-> d]

CompleteMessage == [type |-> "complete", insight |-> EmptyDict]

\* variant: the row is added before the payload is sent
RowsAfterFailedPush_StoredFirst(rows, d, fid) ==
    IF "error" \notin DOMAIN d THEN Append(rows, DbRow("video", d, fid)) ELSE rows

\* the rows of the store when websocket.send_json raised: the exception leaves the
\* function before the store step
RowsAfterFailedPush(rows, d, fid) == rows

\* websocket.send_json(payload) returns or raises; then the store, the cleanup of the
\* temp files, 'frame_count += 1' and the sleep
Send ==
    /\ UNCHANGED <<workerVars, normVars, sendVars, procVars>>
    /\ s_pc = "send"
    /\ \E sent \in BOOLEAN, committed \in BOOLEAN :
          IF ~sent
          THEN /\ Raise("viewer")
               /\ db_rows' = RowsAfterFailedPush(db_rows, insight, frame_count)
               /\ UNCHANGED <<ws_sent, tmp_files, frame_count>>
          ELSE /\ ws_sent' = Append(ws_sent, FrameMessage(insight))
               /\ IF "error" \notin DOMAIN insight /\ ~committed
                  THEN \* db.commit() raises
                       /\ Raise("store")
                       /\ UNCHANGED <<db_rows, tmp_files, frame_count>>
                  ELSE /\ db_rows' = IF "error" \notin DOMAIN insight
                                     THEN Append(db_rows, DbRow("video", insight, frame_count))
                                     ELSE db_rows
                       /\ tmp_files' = tmp_files \ {frame_paths[i] : i \in 1..Len(frame_paths)}
                       /\ frame_count' = frame_count + 1
                       /\ s_pc' = "loop"
                       /\ UNCHANGED <<db_open, abort, ws_state>>
    /\ UNCHANGED <<video_exists, medium, bad_frames, fps10, api_key, cap_pos, frame_interval,
                   frame_paths, anchor, insight, archive, ticks>>

\* websocket.send_json({"type": "complete"}) returns or raises, then the finally
Complete ==
    /\ UNCHANGED <<workerVars, normVars, sendVars, procVars>>
    /\ s_pc = "complete"
    /\ \E sent \in BOOLEAN :
          IF sent
          THEN /\ ws_sent' = Append(ws_sent, CompleteMessage)
               /\ s_pc' = "done"
               /\ db_open' = FALSE
               /\ UNCHANGED <<abort, ws_state>>
          ELSE /\ Raise("complete")
               /\ UNCHANGED ws_sent
    /\ UNCHANGED <<video_exists, medium, bad_frames, fps10, api_key, cap_pos, frame_interval,
                   frame_count, frame_paths, anchor, insight, tmp_files, archive, db_rows,
                   ticks>>

SessionNext ==
    \/ WebsocketAnalyze
    \/ LoopRead
    \/ Analyze
    \/ Send
    \/ Complete

(***************************************************************************)
(* The feed worker: BaseWorker and YOLODetectorWorker.                     *)
(***************************************************************************)
Cameras == {"camA", "camB"}

\* the cameras lists of the model: none (the wildcard subscription), one camera,
\* two cameras, and one camera named twice
CameraLists == {<<>>, <<"camA">>, <<"camA", "camB">>, <<"camA", "camA">>}

\* time.time() when the worker object is constructed
Epoch == MaxCooldown + 1

\* what YOLO finds in a frame: the class names of its detections
FrameContents == {<<>>, <<"car">>, <<"person", "car">>}

\* texts of the field 'f': the base64 of a JPEG image, a base64 text cut short, and
\* a text of characters that are not base64 at all
JpegText == <<"/", "9", "j", "/">>

CutText == <<"/", "9", "j">>

NotBase64Text == <<"!", "!", "!", "!">>

\* the characters of the base64 alphabet that the texts of the model use
B64Alphabet == {"/", "9", "j"}

\* base64.b64decode(text), validate=False: the characters outside the alphabet are
\* discarded, what is left must be whole groups of 4 characters (else binascii.Error)
\* and each group gives 3 bytes; n is the number of bytes
B64Decode(cs) ==
    LET data == SelectSeq(cs, LAMBDA ch : ch \in B64Alphabet)
    IN  IF Len(data) % 4 # 0
        THEN [ok |-> FALSE, n |-> 0]
        ELSE [ok |-> TRUE, n |-> (Len(data) \div 4) * 3]

\* cv2.imdecode gives an image (not None, no exception) for the bytes of a JPEG
ImDecode(bytes) == bytes.n > 0

\* the messages the capture service can publish for camera c with sequence number q:
\* a well-formed frame; a message that json.loads or the field access rejects; and
\* well-formed messages whose 'f' is one of the two texts that are no image
MessagesOf(c, q) ==
    {[c |-> c, s |-> q, wire |-> "ok", f |-> JpegText, objs |-> o] : o \in FrameContents}
    \cup {[c |-> c, s |-> q, wire |-> "malformed", f |-> <<>>, objs |-> <<>>],
          [c |-> c, s |-> q, wire |-> "ok", f |-> CutText, objs |-> <<>>],
          [c |-> c, s |-> q, wire |-> "ok", f |-> NotBase64Text, objs |-> <<>>]}

NoFrame == [c |-> "", s |-> 0, wire |-> "ok", f |-> <<>>, objs |-> <<>>]

\* lines 196-206 of _handle_message raise for message m
DecodeRaises(m) == m.wire = "malformed" \/ ~B64Decode(m.f).ok

NoStop == -1

WorkerInit ==
    /\ cameras \in CameraLists
    /\ alert_cooldown \in 0..MaxCooldown
    /\ w_pc = "new"
    /\ running = FALSE
    /\ nc_connected = FALSE
    /\ subscriptions = <<>>
    /\ now = Epoch
    /\ last_alert_time = [c \in Cameras |-> 0]
    /\ frames_processed = 0
    /\ events_sent = 0
    /\ handler_errors = 0
    /\ published = 0
    /\ gate_log = [c \in Cameras |-> <<>>]
    /\ overlay = {}
    /\ posts = {}
    /\ cancelled = {}
    /\ run_log = <<>>
    /\ signals = <<>>
    /\ stop_seq = NoStop
    /\ early_signal = FALSE

\* the subjects run() subscribes to, in order: frames.<camera> for each camera of
\* the list, or frames.* when the list is empty
Subjects == IF cameras = <<>> THEN <<"*">> ELSE cameras

Matches(subject, c) == subject = "*" \/ subject = c

(* ---- lifecycle: run(), _signal_handler ---- *)

configVars == <<cameras, alert_cooldown>>

handlerVars ==
    <<now, last_alert_time, frames_processed, events_sent, handler_errors, gate_log,
      overlay, posts, cancelled>>

lifeVars == <<run_log, signals, stop_seq, early_signal>>

\* the phase of run(): before it is called, up to its loop, in its loop, in its
\* cleanup
Phase(pc) ==
    CASE pc = "new" -> "early"
      [] pc \in {"connect", "on_start", "subscribe"} -> "starting"
      [] pc = "loop" -> "running"
      [] OTHER -> "draining"

\* the event loop is free to run a callback or run(): no callback is inside a
\* synchronous call that does not return
EventLoopFree == \A i \in 1..Len(subscriptions) : subscriptions[i].pc # "predict"

\* variant: a second signal resumes the worker
StopFlag_Toggle(r) == ~r

\* self.running after _signal_handler, from its value r before
StopFlag(r) == FALSE

\* SIGINT / SIGTERM
SignalHandler ==
    /\ w_pc # "stopped" /\ w_pc # "failed"
    /\ Len(signals) < MaxSignals
    /\ running' = StopFlag(running)
    /\ IF w_pc = "new"
       THEN /\ early_signal' = TRUE
            /\ UNCHANGED <<signals, stop_seq>>
       ELSE /\ signals' = Append(signals, Phase(w_pc))
            /\ stop_seq' = IF signals = <<>> THEN published ELSE stop_seq
            /\ UNCHANGED early_signal
    /\ UNCHANGED <<configVars, w_pc, nc_connected, subscriptions, published, handlerVars,
                   run_log>>
    /\ UNCHANGED <<sessionVars, normVars, sendVars, procVars>>

\* variant: run() goes on after a failed startup step
AfterStartup_GoesOn(ok, next) == next

\* where run() stands after connect() or on_start(): the exception of a failed
\* one reaches 'except Exception', which logs and re-raises
AfterStartup(ok, next) == IF ok THEN next ELSE "failed"

\* run() up to 'await self.connect()'
Run ==
    /\ w_pc = "new"
    /\ running' = TRUE
    /\ w_pc' = "connect"
    /\ UNCHANGED <<configVars, nc_connected, subscriptions, published, handlerVars,
                   lifeVars>>
    /\ UNCHANGED <<sessionVars, normVars, sendVars, procVars>>

\* nats.connect returns or raises
Connect ==
    /\ w_pc = "connect"
    /\ EventLoopFree
    /\ \E ok \in BOOLEAN :
          /\ nc_connected' = ok
          /\ w_pc' = AfterStartup(ok, "on_start")
          /\ run_log' = Append(run_log, IF ok THEN "connect" ELSE "connect_failed")
    /\ UNCHANGED <<configVars, running, subscriptions, published, handlerVars,
                   signals, stop_seq, early_signal>>
    /\ UNCHANGED <<sessionVars, normVars, sendVars, procVars>>

\* on_start loads the YOLO model or raises; run() re-raises and the connection is
\* left as it is
OnStart ==
    /\ w_pc = "on_start"
    /\ EventLoopFree
    /\ \E ok \in BOOLEAN :
          /\ w_pc' = AfterStartup(ok, "subscribe")
          /\ run_log' = Append(run_log, IF ok THEN "on_start" ELSE "on_start_failed")
    /\ UNCHANGED <<configVars, running, nc_connected, subscriptions, published,
                   handlerVars, signals, stop_seq, early_signal>>
    /\ UNCHANGED <<sessionVars, normVars, sendVars, procVars>>

NewSubscription(subject) ==
    [subject |-> subject, active |-> TRUE, queue |-> <<>>, pc |-> "idle", frame |-> NoFrame]

\* one 'await self.nc.subscribe(subject, cb=self._handle_message)'; after the last
\* one run() enters its loop
Subscribe ==
    /\ w_pc = "subscribe"
    /\ EventLoopFree
    /\ subscriptions' =
           Append(subscriptions, NewSubscription(Subjects[Len(subscriptions) + 1]))
    /\ w_pc' = IF Len(subscriptions) + 1 = Len(Subjects) THEN "loop" ELSE "subscribe"
    /\ run_log' = Append(run_log, "subscribe")
    /\ UNCHANGED <<configVars, running, nc_connected, published, handlerVars,
                   signals, stop_seq, early_signal>>
    /\ UNCHANGED <<sessionVars, normVars, sendVars, procVars>>

\* 'while self.running' finds running False after a sleep
LoopExit ==
    /\ w_pc = "loop"
    /\ EventLoopFree
    /\ ~running
    /\ w_pc' = "unsubscribe"
    /\ UNCHANGED <<configVars, running, nc_connected, subscriptions, published,
                   handlerVars, lifeVars>>
    /\ UNCHANGED <<sessionVars, normVars, sendVars, procVars>>

\* one 'await sub.unsubscribe()': the subscription gets no more messages and what
\* is pending on it is dropped; after the last one, on_stop() (a no-op here)
Unsubscribe ==
    /\ w_pc = "unsubscribe"
    /\ EventLoopFree
    /\ \E i \in 1..Len(subscriptions) :
          /\ subscriptions[i].active
          /\ \A j \in 1..(i - 1) : ~subscriptions[j].active
          /\ subscriptions' = [subscriptions EXCEPT ![i].active = FALSE, ![i].queue = <<>>]
          /\ w_pc' = IF i = Len(subscriptions) THEN "disconnect" ELSE "unsubscribe"
          /\ run_log' = run_log \o (IF i = Len(subscriptions)
                                    THEN <<"unsubscribe", "on_stop">>
                                    ELSE <<"unsubscribe">>)
    /\ UNCHANGED <<configVars, running, nc_connected, published, handlerVars,
                   signals, stop_seq, early_signal>>
    /\ UNCHANGED <<sessionVars, normVars, sendVars, procVars>>

\* disconnect(): 'await self.nc.close()', then the finally clause of run()
Disconnect ==
    /\ w_pc = "disconnect"
    /\ EventLoopFree
    /\ nc_connected' = FALSE
    /\ w_pc' = "stopped"
    /\ run_log' = Append(run_log, "close")
    /\ UNCHANGED <<configVars, running, subscriptions, published, handlerVars,
                   signals, stop_seq, early_signal>>
    /\ UNCHANGED <<sessionVars, normVars, sendVars, procVars>>

(* ---- environment: the clock and the capture service ---- *)

\* the values time.time() can return when it last returned t: the clock does not
\* run backwards
ClockReadings(t) == t..(Epoch + MaxClock)

\* the capture service publishes a message on frames.<c>; every active subscription
\* whose subject matches gets it (at most limit deliveries in a run)
Deliver(limit) ==
    /\ \E c \in Cameras :
          LET to == {i \in 1..Len(subscriptions) :
                        subscriptions[i].active /\ Matches(subscriptions[i].subject, c)}
          IN  /\ to # {}
              /\ published + Cardinality(to) <= limit
              /\ \E m \in MessagesOf(c, published + 1) :
                    subscriptions' =
                        [i \in 1..Len(subscriptions) |->
                            IF i \in to
                            THEN [subscriptions[i] EXCEPT !.queue = Append(@, m)]
                            ELSE subscriptions[i]]
              /\ published' = published + Cardinality(to)
    /\ UNCHANGED <<configVars, w_pc, running, nc_connected, handlerVars, lifeVars>>
    /\ UNCHANGED <<sessionVars, normVars, sendVars, procVars>>

UpstreamPublish == Deliver(MaxMsgs)

\* the same, in a run that is sent stop signals
UpstreamPublishBeforeStop == Deliver(MaxStopMsgs)

(* ---- the callback: _handle_message, process_frame, _publish_detections,
        send_event ---- *)

\* person_count of process_frame
PersonCount(objs) == Len(SelectSeq(objs, LAMBDA o : o = "person"))

\* variant: the overlay carries the persons only, as the alert does
OverlayPayload_PersonsOnly(objs) == SelectSeq(objs, LAMBDA o : o = "person")

\* the "detections" of the overlay message
OverlayPayload(objs) == objs

\* the "detections" of the alert event's data
AlertDetections(objs) == SelectSeq(objs, LAMBDA o : o = "person")

\* variant: a frame exactly alert_cooldown after the last alert is still suppressed
CooldownPassed_Strict(t, last_alert) == t - last_alert > alert_cooldown

\* 'now - last_alert >= self.alert_cooldown'
CooldownPassed(t, last_alert) == t - last_alert >= alert_cooldown

\* variant: one alert time is kept for all cameras
StampAlert_AllCameras(lat, c, t) == [x \in DOMAIN lat |-> t]

\* variant: the alert time is not recorded
StampAlert_Skipped(lat, c, t) == lat

\* 'self.last_alert_time[frame.camera_id] = now'
StampAlert(lat, c, t) == [lat EXCEPT ![c] = t]

\* variant: an exception of nc.publish leaves _publish_detections
PublishReturnsNormally_Propagating(ok) == ok

\* _publish_detections returns normally whether nc.publish returned or raised
PublishReturnsNormally(ok) == TRUE

\* send_event returns True exactly on status 200, False on any other status and on
\* an exception
SendEventResult(res) == res = "200"

\* 'self.nc and self.nc.is_connected': the client is open and, at this moment, has
\* its server (it reconnects by itself: reconnect_time_wait=2,
\* max_reconnect_attempts=-1)
IsConnected(link_up) == nc_connected /\ link_up

\* process_frame from 'if person_count > 0' to its return, and the start of
\* send_event for the alert event if one was generated.  S is 'subscriptions' with
\* the message taken off the queue of subscription i; t is what time.time() returns
\* (it is called only for a frame with a person).
CooldownGate(i, m, S) ==
    \E t \in IF PersonCount(m.objs) > 0 THEN ClockReadings(now) ELSE {now} :
        LET persons == PersonCount(m.objs)
            alert == persons > 0 /\ CooldownPassed(t, last_alert_time[m.c])
        IN  /\ now' = t
            /\ last_alert_time' = IF alert THEN StampAlert(last_alert_time, m.c, t)
                                  ELSE last_alert_time
            /\ gate_log' = [gate_log EXCEPT ![m.c] = Append(@,
                   [seq |-> m.s, sub |-> i, cam |-> m.c, t |-> t, objs |-> m.objs,
                    persons |-> persons, allowed |-> alert,
                    data |-> IF alert THEN AlertDetections(m.objs) ELSE <<>>])]
            /\ subscriptions' = [S EXCEPT ![i].pc = IF alert THEN "post" ELSE "idle",
                                          ![i].frame = IF alert THEN m ELSE NoFrame]

OverlayCall(i, m, conn, res) ==
    [seq |-> m.s, sub |-> i, cam |-> m.c, subject |-> m.c,
     dets |-> IF conn THEN OverlayPayload(m.objs) ELSE <<>>, conn |-> conn, res |-> res]

\* _handle_message takes the next message of subscription i and runs up to its first
\* await that suspends: nc.publish if there are detections and the client is
\* connected, else the POST of the alert, else it returns
HandleMessage(i) ==
    LET m == Head(subscriptions[i].queue)
        S == [subscriptions EXCEPT ![i].queue = Tail(@)]
    IN  /\ subscriptions[i].pc = "idle"
        /\ subscriptions[i].queue # <<>>
        /\ EventLoopFree
        /\ IF DecodeRaises(m)
           THEN \* the except clause of _handle_message
                /\ handler_errors' = handler_errors + 1
                /\ subscriptions' = S
                /\ UNCHANGED <<frames_processed, now, last_alert_time, gate_log, overlay>>
           ELSE /\ frames_processed' = frames_processed + 1
                /\ UNCHANGED handler_errors
                /\ \E inferred \in BOOLEAN, link_up \in BOOLEAN :
                      IF ~ImDecode(B64Decode(m.f)) \/ ~inferred
                      THEN \* decode_frame_to_numpy gave None, or model.predict raised
                           /\ subscriptions' = S
                           /\ UNCHANGED <<now, last_alert_time, gate_log, overlay>>
                      ELSE IF m.objs # <<>> /\ IsConnected(link_up)
                      THEN /\ subscriptions' = [S EXCEPT ![i].pc = "publish", ![i].frame = m]
                           /\ UNCHANGED <<now, last_alert_time, gate_log, overlay>>
                      ELSE /\ overlay' = IF m.objs # <<>>
                                         THEN overlay \cup {OverlayCall(i, m, FALSE, "skipped")}
                                         ELSE overlay
                           /\ CooldownGate(i, m, S)
        /\ UNCHANGED <<configVars, w_pc, running, nc_connected, events_sent, published,
                       posts, cancelled, lifeVars>>
        /\ UNCHANGED <<sessionVars, normVars, sendVars, procVars>>

\* _handle_message takes the next message of subscription i and model.predict, a
\* synchronous call made inside the coroutine, does not return
PredictHangs(i) ==
    LET m == Head(subscriptions[i].queue)
    IN  /\ subscriptions[i].pc = "idle"
        /\ subscriptions[i].queue # <<>>
        /\ EventLoopFree
        /\ ~DecodeRaises(m)
        /\ ImDecode(B64Decode(m.f))
        /\ frames_processed' = frames_processed + 1
        /\ subscriptions' = [subscriptions EXCEPT ![i].queue = Tail(@),
                                                   ![i].pc = "predict",
                                                   ![i].frame = m]
        /\ UNCHANGED <<configVars, w_pc, running, nc_connected, published, now,
                       last_alert_time, events_sent, handler_errors, gate_log, overlay,
                       posts, cancelled, lifeVars>>
        /\ UNCHANGED <<sessionVars, normVars, sendVars, procVars>>

\* nc.publish returns or raises, and process_frame goes on to the cooldown gate
PublishReturns(i) ==
    LET m == subscriptions[i].frame
    IN  /\ subscriptions[i].pc = "publish"
        /\ EventLoopFree
        /\ \E ok \in BOOLEAN :
              /\ overlay' = overlay \cup
                     {OverlayCall(i, m, TRUE, IF ok THEN "ok" ELSE "failed")}
              /\ IF PublishReturnsNormally(ok)
                 THEN /\ CooldownGate(i, m, subscriptions)
                      /\ UNCHANGED handler_errors
                 ELSE \* the exception reaches the except clause of _handle_message
                      /\ handler_errors' = handler_errors + 1
                      /\ subscriptions' = [subscriptions EXCEPT ![i].pc = "idle",
                                                                 ![i].frame = NoFrame]
                      /\ UNCHANGED <<now, last_alert_time, gate_log>>
        /\ UNCHANGED <<configVars, w_pc, running, nc_connected, frames_processed,
                       events_sent, published, posts, cancelled, lifeVars>>
        /\ UNCHANGED <<sessionVars, normVars, sendVars, procVars>>

\* what the POST to /api/events/ingest can end in
PostResults == {"200", "500", "exception"}

\* variant: an event whose delivery failed is sent again
AfterSend_Retry(ok) == IF ok THEN "idle" ELSE "post"

\* where the callback stands after 'await self.send_event(event)': the value
\* returned is not read, and the alert is the only event of the list
AfterSend(ok) == "idle"

\* variant: a failed delivery gives the camera its alert back
AlertTimeAfterSend_Compensated(lat, c, ok) == IF ok THEN lat ELSE [lat EXCEPT ![c] = 0]

\* last_alert_time after send_event returned: neither send_event nor the loop of
\* _handle_message around it touches it
AlertTimeAfterSend(lat, c, ok) == lat

\* the POST of send_event ends; _handle_message returns
PostReturns(i) ==
    LET m == subscriptions[i].frame
    IN  /\ subscriptions[i].pc = "post"
        /\ EventLoopFree
        /\ \E res \in PostResults :
              /\ posts' = posts \cup {[seq |-> m.s, sub |-> i, cam |-> m.c, res |-> res]}
              /\ events_sent' = IF SendEventResult(res) THEN events_sent + 1 ELSE events_sent
              /\ subscriptions' =
                     [subscriptions EXCEPT
                         ![i].pc = AfterSend(SendEventResult(res)),
                         ![i].frame = IF AfterSend(SendEventResult(res)) = "idle"
                                      THEN NoFrame ELSE m]
              /\ last_alert_time' =
                     AlertTimeAfterSend(last_alert_time, m.c, SendEventResult(res))
        /\ UNCHANGED <<configVars, w_pc, running, nc_connected, now,
                       frames_processed, handler_errors, published, gate_log, overlay,
                       cancelled, lifeVars>>
        /\ UNCHANGED <<sessionVars, normVars, sendVars, procVars>>

\* the NATS client may cancel the callback of a subscription that was unsubscribed
\* while the callback was suspended
HandlerCancelled(i) ==
    /\ ~subscriptions[i].active
    /\ subscriptions[i].pc \in {"publish", "post"}
    /\ EventLoopFree
    /\ cancelled' = cancelled \cup
           {[seq |-> subscriptions[i].frame.s, sub |-> i, at |-> subscriptions[i].pc]}
    /\ subscriptions' = [subscriptions EXCEPT ![i].pc = "idle", ![i].frame = NoFrame]
    /\ UNCHANGED <<configVars, w_pc, running, nc_connected, now, last_alert_time,
                   frames_processed, events_sent, handler_errors, published, gate_log,
                   overlay, posts, lifeVars>>
    /\ UNCHANGED <<sessionVars, normVars, sendVars, procVars>>

\* the worker from run() on, as long as no SIGINT / SIGTERM is delivered
WorkerNext ==
    \/ Run
    \/ Connect
    \/ OnStart
    \/ Subscribe
    \/ UpstreamPublish
    \/ \E i \in 1..Len(subscriptions) : HandleMessage(i)
    \/ \E i \in 1..Len(subscriptions) : PublishReturns(i)
    \/ \E i \in 1..Len(subscriptions) : PostReturns(i)

\* the worker with its shutdown
LifecycleNext ==
    \/ Run
    \/ Connect
    \/ OnStart
    \/ Subscribe
    \/ UpstreamPublishBeforeStop
    \/ \E i \in 1..Len(subscriptions) : HandleMessage(i)
    \/ \E i \in 1..Len(subscriptions) : PredictHangs(i)
    \/ \E i \in 1..Len(subscriptions) : PublishReturns(i)
    \/ \E i \in 1..Len(subscriptions) : PostReturns(i)
    \/ SignalHandler
    \/ LoopExit
    \/ Unsubscribe
    \/ Disconnect
    \/ \E i \in 1..Len(subscriptions) : HandlerCancelled(i)

(***************************************************************************)
(* The normalisation step of stream_video_analysis (lines 93-102) on its   *)
(* own, applied to every answer of a family of analyzer answers.           *)
(***************************************************************************)
\* the characters of the free_space texts
TextAlphabet == {"4", "2", "%", " ", "n", "."}

\* the free_space texts: every text of at most MaxText characters
Texts == UNION {[1..k -> TextAlphabet] : k \in 0..MaxText}

\* a key the answer does not have
Absent == [kind |-> "absent", n |-> 0, s |-> <<>>]

PutIfPresent(d, k, v) == IF v = Absent THEN d ELSE Put(d, k, v)

\* the answers json.loads can give: with or without each congestion key, and with
\* free_space missing, a number or any of the texts
RawResults ==
    {PutIfPresent(PutIfPresent(PutIfPresent(
         [count |-> IntV(3), density |-> Tok("low")],
         "congestion", c), "congestion_level", l), "free_space", f) :
       c \in {Absent, IntV(2)},
       l \in {Absent, IntV(7)},
       f \in {Absent, IntV(42)} \cup {StrV(cs) : cs \in Texts}}

NormalizerInit ==
    /\ n_raw \in RawResults
    /\ n_insight = n_raw
    /\ n_pc = "raw"

\* lines 93-102 run on the analyzer's answer
NormalizeResult ==
    /\ n_pc = "raw"
    /\ n_insight' = Normalize(n_insight)
    /\ n_pc' = "normalized"
    /\ UNCHANGED <<n_raw, sessionVars, workerVars, sendVars, procVars>>

\* lines 93-102 run on an insight they have already normalised
NormalizeAgain ==
    /\ n_pc = "normalized"
    /\ n_insight' = Normalize(n_insight)
    /\ n_pc' = "renormalized"
    /\ UNCHANGED <<n_raw, sessionVars, workerVars, sendVars, procVars>>

NormalizerNext == NormalizeResult \/ NormalizeAgain

\* no answer in hand
NormalizerIdle ==
    /\ n_raw = EmptyDict
    /\ n_insight = EmptyDict
    /\ n_pc = "raw"

(***************************************************************************)
(* BaseWorker.send_event on its own, called once with every event of a     *)
(* family of events, against every answer of the ingestion endpoint.       *)
(***************************************************************************)
\* Event.frame: None, bytes of length 0, or the bytes of a JPEG
Frames == {"None", "empty", "jpeg"}

Events ==
    [event_type : {"person_detected", "heartbeat"}, camera_id : Cameras, frame : Frames]

\* what the POST can end in: a status of the response, or an exception of aiohttp
Responses == {"200", "201", "204", "302", "404", "500", "exception"}

NoRequest == [url |-> "", shape |-> "", event_parts |-> <<>>, frame_parts |-> <<>>]

\* event_payload of send_event
EventPayload(ev) == [device_id |-> ev.camera_id, type |-> ev.event_type]

\* variant: every event is posted as a JSON batch
Multipart_Never(ev) == FALSE

\* 'if event.frame:'
Multipart(ev) == ev.frame \notin {"None", "empty"}

\* the POST send_event makes for the event: the multipart form with the fields
\* 'event' and 'frame', or the JSON object {"events": [event_payload]}
PostOf(ev) ==
    IF Multipart(ev)
    THEN [url |-> "/api/events/ingest", shape |-> "multipart",
          event_parts |-> <<EventPayload(ev)>>, frame_parts |-> <<ev.frame>>]
    ELSE [url |-> "/api/events/ingest", shape |-> "json",
          event_parts |-> <<EventPayload(ev)>>, frame_parts |-> <<>>]

SendEventInit ==
    /\ event \in Events
    /\ response \in Responses
    /\ request = NoRequest
    /\ success = FALSE
    /\ se_pc = "called"

\* send_event(event), whole
SendEvent ==
    /\ se_pc = "called"
    /\ request' = PostOf(event)
    /\ success' = SendEventResult(response)
    /\ events_sent' = IF SendEventResult(response) THEN events_sent + 1 ELSE events_sent
    /\ se_pc' = "returned"
    /\ UNCHANGED <<event, response>>
    /\ UNCHANGED <<configVars, w_pc, running, nc_connected, subscriptions, published, now,
                   last_alert_time, frames_processed, handler_errors, gate_log, overlay,
                   posts, cancelled, lifeVars>>
    /\ UNCHANGED <<sessionVars, normVars, procVars>>

\* no call of send_event in hand
SendEventIdle ==
    /\ event = [event_type |-> "heartbeat", camera_id |-> "camA", frame |-> "None"]
    /\ response = "200"
    /\ request = NoRequest
    /\ success = FALSE
    /\ se_pc = "returned"

(***************************************************************************)
(* Two sampled-file sessions served by one process: stream_video_analysis  *)
(* runs once per viewer, as coroutines of the one event loop, and every    *)
(* run names its temporary frame files after the pid of the process.  The  *)
(* media have no unreadable frame and GENAI_API_KEY is set, so that every  *)
(* tick's analyzer call opens the files of frame_paths.                    *)
(***************************************************************************)
Sessions == {"s1", "s2"}

\* int(fps) of the media served
Intervals == {1, 2}

\* temp_gemini_<pid>_<k>.jpg does not exist
NoFile == [session |-> "none", frame |-> 0]

\* variant: the analyzer call gives the loop to the other coroutines
Suspends_InAnalysis(pc) == pc \in {"read", "analyze", "send", "complete", "aborted"}

\* the awaits at which the coroutine is suspended and the loop runs another one:
\* websocket.send_json, asyncio.sleep and the end of the run.  The await of
\* analyze_frames is none of them: analyze_frames has no await of its own
\* (Image.open and generate_content are plain calls), so it runs to its end
\* within the step of the loop that called it
Suspends(pc) == pc \in {"read", "send", "complete", "aborted"}

\* the loop can run session s: no other coroutine is in the middle of a step
CanRun(s) == \A o \in Sessions \ {s} : Suspends(p_pc[o])

\* the images analyze_frames opens: those of the paths that exist
ImagesOf(paths) ==
    SelectSeq([i \in 1..Len(paths) |-> shared_tmp[paths[i]]], LAMBDA f : f # NoFile)

\* the indexes k of a list of paths
PathSet(paths) == {paths[i] : i \in 1..Len(paths)}

ProcessInit ==
    /\ p_medium \in [Sessions -> 1..MaxNative]
    /\ p_interval \in [Sessions -> Intervals]
    /\ p_pc = [s \in Sessions |-> "read"]
    /\ p_pos = [s \in Sessions |-> 0]
    /\ p_frame_count = [s \in Sessions |-> 0]
    /\ p_paths = [s \in Sessions |-> <<>>]
    /\ p_wrote = [s \in Sessions |-> <<>>]
    /\ shared_tmp = [k \in 0..2 |-> NoFile]
    /\ analyses = <<>>

\* one pass of the while loop from cap.read() to its first await: the end of the
\* medium, a pass that is no tick (up to asyncio.sleep), or a tick up to the
\* analyzer call, with the frame files written
ReadFrame(s) ==
    /\ p_pc[s] = "read"
    /\ CanRun(s)
    /\ IF p_pos[s] >= p_medium[s]
       THEN /\ p_pc' = [p_pc EXCEPT ![s] = "complete"]
            /\ UNCHANGED <<p_pos, p_frame_count, p_paths, p_wrote, shared_tmp>>
       ELSE IF p_frame_count[s] % p_interval[s] # 0
       THEN /\ p_pos' = [p_pos EXCEPT ![s] = @ + 1]
            /\ p_frame_count' = [p_frame_count EXCEPT ![s] = @ + 1]
            /\ UNCHANGED <<p_pc, p_paths, p_wrote, shared_tmp>>
       ELSE LET n == p_pos[s]
                rest == p_medium[s] - n - 1
                ahead == IF rest < 2 THEN rest ELSE 2
                written == [i \in 1..(1 + ahead) |-> [session |-> s, frame |-> n + i - 1]]
            IN  /\ shared_tmp' = [k \in 0..2 |-> IF k <= ahead THEN written[k + 1]
                                                            ELSE shared_tmp[k]]
                /\ p_paths' = [p_paths EXCEPT ![s] = [i \in 1..(1 + ahead) |-> i - 1]]
                /\ p_wrote' = [p_wrote EXCEPT ![s] = written]
                /\ p_pos' = [p_pos EXCEPT ![s] = n + 1 + ahead]
                /\ p_pc' = [p_pc EXCEPT ![s] = "analyze"]
                /\ UNCHANGED p_frame_count
    /\ UNCHANGED <<p_medium, p_interval, analyses>>
    /\ UNCHANGED <<sessionVars, workerVars, normVars, sendVars>>

\* gemini_service.analyze_frames(frame_paths) and the rest of the tick up to
\* 'await websocket.send_json(payload)'
AnalyzeFrames(s) ==
    /\ p_pc[s] = "analyze"
    /\ CanRun(s)
    /\ analyses' = Append(analyses, [session |-> s, wrote |-> p_wrote[s],
                                     read |-> ImagesOf(p_paths[s])])
    /\ p_pc' = [p_pc EXCEPT ![s] = "send"]
    /\ UNCHANGED <<p_medium, p_interval, p_pos, p_frame_count, p_paths, p_wrote, shared_tmp>>
    /\ UNCHANGED <<sessionVars, workerVars, normVars, sendVars>>

\* send_json returns, and the tick goes on up to asyncio.sleep: the temporary
\* files of frame_paths that exist are removed; or send_json raises, and the
\* run ends with the files left where they are
SendReturns(s) ==
    /\ p_pc[s] = "send"
    /\ CanRun(s)
    /\ \E sent \in BOOLEAN :
         IF sent
         THEN /\ shared_tmp' = [k \in 0..2 |-> IF k \in PathSet(p_paths[s]) THEN NoFile
                                                                          ELSE shared_tmp[k]]
              /\ p_frame_count' = [p_frame_count EXCEPT ![s] = @ + 1]
              /\ p_pc' = [p_pc EXCEPT ![s] = "read"]
         ELSE /\ p_pc' = [p_pc EXCEPT ![s] = "aborted"]
              /\ UNCHANGED <<shared_tmp, p_frame_count>>
    /\ UNCHANGED <<p_medium, p_interval, p_pos, p_paths, p_wrote, analyses>>
    /\ UNCHANGED <<sessionVars, workerVars, normVars, sendVars>>

ProcessNext == \E s \in Sessions : ReadFrame(s) \/ AnalyzeFrames(s) \/ SendReturns(s)

\* no session under way in the process
ProcessIdle ==
    /\ p_medium = [s \in Sessions |-> 1]
    /\ p_interval = [s \in Sessions |-> 1]
    /\ p_pc = [s \in Sessions |-> "complete"]
    /\ p_pos = [s \in Sessions |-> 0]
    /\ p_frame_count = [s \in Sessions |-> 0]
    /\ p_paths = [s \in Sessions |-> <<>>]
    /\ p_wrote = [s \in Sessions |-> <<>>]
    /\ shared_tmp = [k \in 0..2 |-> NoFile]
    /\ analyses = <<>>

(***************************************************************************)
(* Specifications.                                                         *)
(***************************************************************************)
\* the worker before run(), with the default configuration
WorkerIdle ==
    /\ WorkerInit
    /\ cameras = <<>>
    /\ alert_cooldown = 0

\* the session before a viewer connects
SessionIdle ==
    /\ SessionInit
    /\ video_exists = FALSE
    /\ medium = 0
    /\ bad_frames = {}
    /\ fps10 = 0
    /\ api_key = FALSE

Init == SessionInit /\ WorkerInit /\ NormalizerInit /\ SendEventInit /\ ProcessInit

Next == SessionNext \/ LifecycleNext \/ NormalizerNext \/ SendEvent \/ ProcessNext

Spec == Init /\ [][Next]_vars

\* a session, in a process that runs no worker
SessionStart == SessionInit /\ WorkerIdle /\ NormalizerIdle /\ SendEventIdle /\ ProcessIdle

SessionSpec == SessionStart /\ [][SessionNext]_vars

\* a worker, in a process that serves no session
WorkerStart == WorkerInit /\ SessionIdle /\ NormalizerIdle /\ SendEventIdle /\ ProcessIdle

WorkerSpec == WorkerStart /\ [][WorkerNext]_vars

\* a worker that is sent stop signals; the shutdown does not read the cooldown
LifecycleStart == WorkerStart /\ alert_cooldown = 0

LifecycleSpec == LifecycleStart /\ [][LifecycleNext]_vars

\* the normalisation step, in a process with no session and no worker under way
NormalizerStart == NormalizerInit /\ SessionIdle /\ WorkerIdle /\ SendEventIdle /\ ProcessIdle

NormalizerSpec == NormalizerStart /\ [][NormalizerNext]_vars

\* one call of send_event, in a worker that is not running
SendEventStart == SendEventInit /\ SessionIdle /\ WorkerIdle /\ NormalizerIdle /\ ProcessIdle

SendEventSpec == SendEventStart /\ [][SendEvent]_vars

\* two sessions in a process that runs no worker
ProcessStart == ProcessInit /\ SessionIdle /\ WorkerIdle /\ NormalizerIdle /\ SendEventIdle

ProcessSpec == ProcessStart /\ [][ProcessNext]_vars

(***************************************************************************)
(* Properties of the sampled-file session.                                 *)
(***************************************************************************)
\* the frame_id of every 'frame' message sent to the live viewer, in order
RECURSIVE FrameIdsOf(_)
FrameIdsOf(msgs) ==
    IF msgs = <<>> THEN <<>>
    ELSE IF Head(msgs).type = "frame"
         THEN <<Head(msgs).insight["frame_id"].n>> \o FrameIdsOf(Tail(msgs))
         ELSE FrameIdsOf(Tail(msgs))

SentFrameIds == FrameIdsOf(ws_sent)

StrictlyIncreasing(q) == \A i, j \in 1..Len(q) : i < j => q[i] < q[j]

\* the session ran to end-of-medium and returned normally
RanToEnd == s_pc = "done"

\* a window that holds fewer than the 3 frames of a full one because the medium
\* ended, not because a frame was unreadable
Truncated(t) == t.window < 3 /\ \A q \in (t.anchor + 1)..(t.anchor + 2) : q \notin bad_frames

\* the ticks emitted, leaving out a last one whose window is truncated
FullTicksEmitted ==
    Len(SentFrameIds)
    - (IF ticks # <<>> /\ Truncated(ticks[Len(ticks)]) THEN 1 ELSE 0)

\* C4: a session that runs to end-of-medium at cadence >= 1 over N native frames
\* emits exactly floor(N / cadence) ticks, whether or not a trailing tick with a
\* partial window is counted.
C4_TickCountIsFloor ==
    (RanToEnd /\ frame_interval >= 1) =>
        \/ Len(SentFrameIds) = medium \div frame_interval
        \/ FullTicksEmitted = medium \div frame_interval

\* C5: every emitted tick's frame_id (in the insight pushed to the viewer, in the
\* archive file name and in the durable record) is a multiple of the cadence, and
\* the ticks are emitted in strictly increasing frame_id order.
C5_AnchorsMultipleAndIncreasing ==
    /\ \A i \in 1..Len(SentFrameIds) : SentFrameIds[i] % frame_interval = 0
    /\ \A f \in archive : f % frame_interval = 0
    /\ \A i \in 1..Len(db_rows) : db_rows[i].frame_id % frame_interval = 0
    /\ StrictlyIncreasing(SentFrameIds)
    /\ StrictlyIncreasing([i \in 1..Len(db_rows) |-> db_rows[i].frame_id])

C5_Witness ==
    /\ frame_interval = 2
    /\ Len(SentFrameIds) >= 2
    /\ Len(db_rows) >= 2
    /\ Cardinality(archive) >= 2

\* C6: the 90-frame medium at cadence 30 yields exactly 3 ticks with frame_id 0, 30
\* and 60; every window holds at most 3 frames, and fewer than 3 only when the end
\* of the medium cut it.
C6_EndToEnd ==
    (medium = 90 /\ frame_interval = 30) =>
        /\ RanToEnd => SentFrameIds = <<0, 30, 60>>
        /\ \A i \in 1..Len(ticks) :
              /\ ticks[i].window <= 3
              /\ Truncated(ticks[i]) => ticks[i].anchor + ticks[i].window = medium

C6_Witness ==
    /\ medium = 90
    /\ frame_interval = 30
    /\ RanToEnd
    /\ Len(ticks) = 3

\* the tick of entry i has a 'frame' message in ws_sent
Pushed(i) == \E k \in 1..Len(SentFrameIds) : SentFrameIds[k] = ticks[i].frame_id

\* C7: when the medium ends while the extra window frames are read, the tick is
\* analyzed with the anchor plus the frames actually read, it is dispatched like
\* any other tick, and the session then ends normally with 'complete': the
\* truncation itself stops nothing.
C7_TruncatedWindowIsNoError ==
    \A i \in 1..Len(ticks) :
        Truncated(ticks[i]) =>
            /\ ticks[i].window >= 1
            /\ ticks[i].window = medium - ticks[i].anchor
            /\ s_pc = "aborted" => abort \in {"insight", "archive", "viewer", "store", "complete"}
            /\ s_pc = "loop" => Pushed(i) /\ cap_pos >= medium
            /\ RanToEnd => /\ Pushed(i)
                           /\ ws_sent[Len(ws_sent)] = CompleteMessage

C7_Witness ==
    /\ RanToEnd
    /\ ticks # <<>>
    /\ ticks[Len(ticks)].window = 2
    /\ Pushed(Len(ticks))
    /\ Len(db_rows) = Len(ticks)

\* the sinks that failed in the session
SinkFailures == {"archive", "viewer", "store"}

\* C9: a failing sink (archive on disk, live viewer push, durable store append)
\* does not stop the session, and every tick dispatched still reaches the other
\* two sinks.
C9_SinkIsolation ==
    /\ abort \notin SinkFailures
    /\ (s_pc \in {"done", "aborted"} /\ abort \notin {"cadence", "insight", "complete"}) =>
          \A i \in 1..Len(ticks) :
              Cardinality({k \in {1} : ticks[i].frame_id \in archive}
                          \cup {k \in {2} : Pushed(i)}
                          \cup {k \in {3} : \E j \in 1..Len(db_rows) :
                                                db_rows[j].frame_id = ticks[i].frame_id}) >= 2

\* an insight that tells the viewer the analysis failed
ErrorFlavoured(d) ==
    \/ "error" \in DOMAIN d
    \/ Get(d, "density", Tok("")) = Tok("error")

AnalyzerFailed(t) == t.fault \in {"stub", "raise"}

\* the 'frame' message of the tick of entry i
MessageOf(i) ==
    CHOOSE m \in {ws_sent[k] : k \in 1..Len(ws_sent)} :
        m.type = "frame" /\ m.insight["frame_id"].n = ticks[i].frame_id

C11_FailureStubShape ==
    \A i \in 1..Len(ticks) :
        (AnalyzerFailed(ticks[i]) /\ Pushed(i)) =>
            LET d == MessageOf(i).insight
            IN  /\ Get(d, "density", Tok("")) = Tok("error")
                /\ Get(d, "movement", Tok("")) = Tok("error")
                /\ Get(d, "alerts", ListV(<<"">>)) = ListV(<<>>)

\* C19: a native frame that cannot be read is skipped: the session goes on with
\* the frames after it, so when the loop has ended only unreadable frames are
\* left unread.
C19_UnreadableFrameIsSkipped ==
    s_pc \in {"complete", "done"} =>
        \A q \in cap_pos..(medium - 1) : q \in bad_frames

\* the insight pushed with frame_id fid
InsightSent(fid) ==
    (CHOOSE m \in {ws_sent[k] : k \in 1..Len(ws_sent)} :
        m.type = "frame" /\ m.insight["frame_id"].n = fid).insight

\* the congestion value the analyzer supplied, under either name ('congestion' is
\* kept by the normalisation when present, and set from 'congestion_level' otherwise)
SuppliedCongestion(d) == Get(d, "congestion", Get(d, "congestion_level", IntV(0)))

\* C20: whichever of 'congestion' and 'congestion_level' the analyzer's result
\* uses, the normalized insight has the supplied value as congestion_level and so
\* has the durable record.
C20_CongestionFolded ==
    \A j \in 1..Len(db_rows) :
        LET d == InsightSent(db_rows[j].frame_id)
        IN  ("congestion" \in DOMAIN d \/ "congestion_level" \in DOMAIN d) =>
                /\ Get(d, "congestion_level", IntV(0)) = SuppliedCongestion(d)
                /\ db_rows[j].congestion_level = SuppliedCongestion(d)

(***************************************************************************)
(* Properties of the feed worker (WorkerSpec).                             *)
(***************************************************************************)
Range(s) == {s[k] : k \in 1..Len(s)}

\* the frames of camera c with a person that reached the cooldown gate, in order
PersonEntries(c) == SelectSeq(gate_log[c], LAMBDA e : e.persons > 0)

\* messages waiting in the queues of the subscriptions
RECURSIVE Queued(_)
Queued(n) == IF n = 0 THEN 0 ELSE Len(subscriptions[n].queue) + Queued(n - 1)

\* C1: for one camera, a frame with a person that follows an allowed alert at t0
\* with no allowed alert in between generates its alert event exactly if its own
\* time t satisfies t - t0 >= alert_cooldown.  In particular with frames at
\* t0 < t1 < t2, the alert at t0 allowed: t1 - t0 < W gives no alert for t1, and
\* then t2 - t0 >= W gives the alert for t2.
C1_CooldownFromLastAllowed ==
    \A c \in Cameras :
        LET P == PersonEntries(c)
        IN  \A i \in 1..Len(P), j \in 1..Len(P) :
                (/\ i < j
                 /\ P[i].allowed
                 /\ \A k \in (i + 1)..(j - 1) : ~P[k].allowed)
                => (P[j].allowed <=> P[j].t - P[i].t >= alert_cooldown)

C1_Witness ==
    \E c \in Cameras :
        LET P == PersonEntries(c)
        IN  /\ Len(P) >= 3
            /\ P[1].t < P[2].t /\ P[2].t < P[3].t
            /\ P[1].allowed
            /\ P[2].t - P[1].t < alert_cooldown /\ ~P[2].allowed
            /\ P[3].t - P[1].t >= alert_cooldown /\ P[3].allowed

\* C2: whatever the interleaving of the handlers, two alert events generated for
\* the same camera are at least alert_cooldown apart.
C2_AlertsCooldownApart ==
    \A c \in Cameras :
        \A i \in 1..Len(gate_log[c]), j \in 1..Len(gate_log[c]) :
            (i < j /\ gate_log[c][i].allowed /\ gate_log[c][j].allowed)
            => gate_log[c][j].t - gate_log[c][i].t >= alert_cooldown

\* two handlers run for the same frame of one camera: the first is suspended in
\* the POST of its alert while the second passes the gate and is suppressed
C2_Witness ==
    \E c \in Cameras :
        /\ alert_cooldown > 0
        /\ Len(gate_log[c]) >= 2
        /\ LET a == gate_log[c][1]
               b == gate_log[c][2]
           IN  /\ a.sub # b.sub /\ a.seq = b.seq
               /\ a.allowed /\ ~b.allowed /\ b.persons > 0
               /\ subscriptions[a.sub].pc = "post"
               /\ subscriptions[a.sub].frame.s = a.seq

\* C3: every frame of camera c with at least one detection that is processed while
\* the worker is connected has its full detection list published on
\* detections.c, whether its person alert was allowed or suppressed.
C3_OverlayIndependentOfCooldown ==
    \A c \in Cameras :
        \A e \in Range(gate_log[c]) :
            e.objs # <<>> =>
                \E o \in overlay :
                    /\ o.seq = e.seq /\ o.sub = e.sub
                    /\ o.conn => (o.subject = c /\ o.dets = e.objs)

C3_Witness ==
    \E c \in Cameras :
        \E a \in Range(gate_log[c]), b \in Range(gate_log[c]) :
            /\ a.persons > 0 /\ a.allowed
            /\ b.persons > 0 /\ ~b.allowed
            /\ a.objs = b.objs /\ Len(a.objs) > a.persons
            /\ \E o \in overlay :
                  o.seq = a.seq /\ o.sub = a.sub /\ o.res = "ok" /\ o.dets = a.objs
            /\ \E o \in overlay :
                  o.seq = b.seq /\ o.sub = b.sub /\ o.res = "ok" /\ o.dets = b.objs

\* C8: a failed overlay publish does not keep the frame from the cooldown gate nor
\* its alert from being posted; a failed POST is not an error of the message
\* handler (handler_errors counts undecodable messages only) and the handler has
\* returned; after either failure the worker is still running with its
\* subscriptions active, ready for the next frame.
C8_FeedSinkIsolation ==
    /\ \A o \in overlay :
          o.res = "failed" =>
              LET G == gate_log[o.cam]
              IN  \E n \in 1..Len(G) :
                      /\ G[n].seq = o.seq /\ G[n].sub = o.sub
                      /\ (G[n].persons > 0 /\ \A k \in 1..(n - 1) : ~G[k].allowed)
                            => G[n].allowed
                      /\ G[n].allowed =>
                            \/ \E p \in posts : p.seq = o.seq /\ p.sub = o.sub
                            \/ /\ subscriptions[o.sub].pc = "post"
                               /\ subscriptions[o.sub].frame.s = o.seq
    /\ frames_processed + handler_errors + Queued(Len(subscriptions)) = published
    /\ \A p \in posts :
          p.res # "200" =>
              /\ subscriptions[p.sub].frame.s # p.seq
              /\ subscriptions[p.sub].active
    /\ (overlay # {} \/ posts # {}) => (w_pc \in {"subscribe", "loop"} /\ running)

C8_Witness ==
    \E i \in 1..Len(subscriptions) :
        \E o \in overlay, p \in posts :
            /\ o.sub = i /\ o.res = "failed"
            /\ p.sub = i /\ p.seq = o.seq /\ p.res # "200"
            /\ \E c \in Cameras :
                  \E e \in Range(gate_log[c]) : e.sub = i /\ e.seq > o.seq

\* a text that is not base64: a character outside the alphabet, or a length that is
\* not a whole number of 4-character groups
InvalidBase64(cs) ==
    \/ \E k \in 1..Len(cs) : cs[k] \notin B64Alphabet
    \/ Len(cs) % 4 # 0

\* a message that cannot be decoded: its JSON or its image text is invalid
Undecodable(m) == m.wire = "malformed" \/ InvalidBase64(m.f)

\* subscription i hands the head of its queue to _handle_message in this step
Takes(i) ==
    /\ Len(subscriptions') = Len(subscriptions)
    /\ subscriptions[i].pc = "idle"
    /\ subscriptions[i].queue # <<>>
    /\ subscriptions'[i].active
    /\ subscriptions'[i].queue = Tail(subscriptions[i].queue)

\* C18: a message that cannot be decoded (invalid JSON, a missing field, invalid
\* base64 image data) is dropped: frames_processed is not incremented, the handler
\* has returned without a publish or a POST, and the subscription stays ready.
C18_UndecodableIsDropped ==
    [][\A i \in 1..Len(subscriptions) :
          (Takes(i) /\ Undecodable(Head(subscriptions[i].queue))) =>
              /\ frames_processed' = frames_processed
              /\ subscriptions'[i].pc = "idle"
              /\ UNCHANGED <<gate_log, overlay, posts, events_sent>>]_vars

\* process_frame is in progress in the callback of subscription i: it is suspended
\* in the overlay publish, between its decode and its cooldown gate
InProcessFrame(i) == subscriptions[i].pc = "publish"

\* C13: for every camera and every cameras list, at most one process_frame
\* invocation for that camera is in progress at any time.
C13_OneAnalysisPerCamera ==
    \A i \in 1..Len(subscriptions), j \in 1..Len(subscriptions) :
        (/\ i # j
         /\ InProcessFrame(i)
         /\ InProcessFrame(j)) => subscriptions[i].frame.c # subscriptions[j].frame.c

(***************************************************************************)
(* Properties of the worker's lifecycle.                                   *)
(***************************************************************************)
\* connect() or on_start() raised in this run
StartupFailed ==
    \E k \in 1..Len(run_log) : run_log[k] \in {"connect_failed", "on_start_failed"}

\* C17: if the initial connection fails or on_start raises, run() ends by raising:
\* no subscription is created, process_frame is never invoked and no event is
\* ever sent.
C17_StartupFailureIsFatal ==
    StartupFailed =>
        /\ w_pc = "failed"
        /\ subscriptions = <<>>
        /\ "subscribe" \notin Range(run_log)
        /\ frames_processed = 0 /\ handler_errors = 0
        /\ \A c \in Cameras : gate_log[c] = <<>>
        /\ overlay = {} /\ posts = {} /\ events_sent = 0

C17_Witness ==
    /\ run_log = <<"connect", "on_start_failed">>
    /\ published = 0
    /\ signals # <<>>
    /\ cameras # <<>>

\* the upstream connection was established in this run
Established == "connect" \in Range(run_log)

\* C15: every run() that ends after the connection was established has
\* unsubscribed every subscription it created, called on_stop and closed the
\* connection, also when it ends because on_start or a subscribe call failed.
C15_TeardownOnEveryExit ==
    (w_pc \in {"failed", "stopped"} /\ Established) =>
        /\ \A i \in 1..Len(subscriptions) : ~subscriptions[i].active
        /\ "on_stop" \in Range(run_log)
        /\ ~nc_connected

\* the one sequence of steps of a run() that starts, is stopped and cleans up
TeardownRun ==
    <<"connect", "on_start">>
        \o [k \in 1..Len(Subjects) |-> "subscribe"]
        \o [k \in 1..Len(Subjects) |-> "unsubscribe"]
        \o <<"on_stop", "close">>

\* C16: the stop signal is idempotent: however many signals are delivered, and
\* whenever, the worker is stopping from the first one on, and the run that ends
\* has made the one teardown sequence and is in the one final state.
C16_StopSignalIdempotent ==
    /\ signals # <<>> => ~running
    /\ w_pc = "stopped" =>
          /\ signals # <<>>
          /\ run_log = TeardownRun
          /\ ~running
          /\ ~nc_connected
          /\ \A i \in 1..Len(subscriptions) :
                ~subscriptions[i].active /\ subscriptions[i].queue = <<>>

C16_Witness ==
    /\ signals = <<"running", "running">>
    /\ w_pc = "stopped"
    /\ Len(subscriptions) = 2

\* the message with sequence number s was delivered after a stop signal that the
\* worker received in its loop
ArrivedAfterStop(s) == signals # <<>> /\ Head(signals) = "running" /\ s > stop_seq

\* C14: no message that arrives after the stop signal is handed to process_frame,
\* and no overlay publish or POST is started for it.
C14_NothingNewAfterStop ==
    /\ \A i \in 1..Len(subscriptions) :
          subscriptions[i].pc # "idle" => ~ArrivedAfterStop(subscriptions[i].frame.s)
    /\ \A c \in Cameras : \A e \in Range(gate_log[c]) : ~ArrivedAfterStop(e.seq)
    /\ \A o \in overlay : ~ArrivedAfterStop(o.seq)
    /\ \A p \in posts : ~ArrivedAfterStop(p.seq)

\* the callback of subscription i is inside a model.predict that does not return
Hung(i) == subscriptions[i].pc = "predict"

\* C12: while the analyzer call for a frame of camera A does not return, a frame of
\* another camera B that is pending on B's subscription is processed.
C12_HungAnalyzerIsolated ==
    \A i \in 1..Len(subscriptions), j \in 1..Len(subscriptions) :
        (/\ Hung(i)
         /\ subscriptions[j].active
         /\ subscriptions[j].pc = "idle"
         /\ subscriptions[j].queue # <<>>
         /\ Head(subscriptions[j].queue).c # subscriptions[i].frame.c)
            => ENABLED HandleMessage(j)

(***************************************************************************)
(* Properties of the normalisation step.                                   *)
(***************************************************************************)
\* the text without a trailing '%' and without the blanks around either
Numeral(cs) ==
    LET t == Strip(cs)
    IN  IF t # <<>> /\ t[Len(t)] = "%" THEN Strip(SubSeq(t, 1, Len(t) - 1)) ELSE t

\* a numeric string: digits, with or without a trailing '%' and surrounding blanks
NumericText(cs) ==
    /\ Numeral(cs) # <<>>
    /\ \A i \in 1..Len(Numeral(cs)) : IsDigit(Numeral(cs)[i])

\* the answer in hand has a free_space that is a text
RawFreeSpaceIsText ==
    /\ "free_space" \in DOMAIN n_raw
    /\ n_raw["free_space"].kind = "str"

\* the insight as the live viewer gets it, and the row the store gets
SentToViewer(d) == FrameMessage(Stamp(d, 0)).insight

Stored(d) == DbRow("video", Stamp(d, 0), 0)

\* C21: a free_space that arrives as a numeric string, with or without a trailing
\* '%' and surrounding blanks, is the corresponding integer in the insight pushed
\* to the viewer and in the row stored.
C21_NumericFreeSpaceCoerced ==
    (/\ n_pc # "raw"
     /\ RawFreeSpaceIsText
     /\ NumericText(n_raw["free_space"].s)) =>
        LET v == IntV(DecimalValue(Numeral(n_raw["free_space"].s)))
        IN  /\ SentToViewer(n_insight)["free_space"] = v
            /\ Stored(n_insight).free_space = v

C21_Witness ==
    /\ n_pc = "normalized"
    /\ RawFreeSpaceIsText
    /\ n_raw["free_space"].s = <<" ", "4", "2", "%">>
    /\ n_insight["free_space"] = IntV(42)
    /\ Stored(n_insight).free_space = IntV(42)

\* C22: a free_space text that cannot be parsed as an integer leaves free_space at
\* its default 0 in the insight pushed to the viewer and in the row stored.
C22_UnparsableFreeSpaceIsZero ==
    (/\ n_pc # "raw"
     /\ RawFreeSpaceIsText
     /\ ~IsIntLiteral(Strip(RemovePercent(n_raw["free_space"].s)))) =>
        /\ Get(SentToViewer(n_insight), "free_space", IntV(0)) = IntV(0)
        /\ Stored(n_insight).free_space = IntV(0)

\* C23: normalising an insight that is already normalised leaves it unchanged.
C23_NormalizeIdempotent ==
    [][n_pc = "normalized" => n_insight' = n_insight]_vars

C23_Witness ==
    /\ n_pc = "renormalized"
    /\ RawFreeSpaceIsText
    /\ n_raw["free_space"].s = <<"4", "2", "%">>
    /\ "congestion_level" \in DOMAIN n_raw
    /\ "congestion" \notin DOMAIN n_raw
    /\ n_insight # n_raw

(***************************************************************************)
(* Properties of the session's sinks.                                      *)
(***************************************************************************)
\* the positions of the 'complete' messages among those sent to the viewer
CompletePositions == {k \in 1..Len(ws_sent) : ws_sent[k].type = "complete"}

\* the ticks whose processing is over: all but one still in hand, or one the
\* session was aborted in
ProcessedTicks ==
    IF s_pc \in {"analyze", "send", "aborted"} THEN Len(ticks) - 1 ELSE Len(ticks)

\* C24: the session sends exactly one 'frame' message per processed tick, in order,
\* and on end-of-stream exactly one 'complete' message, which is the last message
\* and comes after the 'frame' message of every tick.
C24_ViewerProtocol ==
    /\ Len(SentFrameIds) \in {ProcessedTicks, Len(ticks)}
    /\ \A k \in 1..Len(SentFrameIds) : SentFrameIds[k] = ticks[k].frame_id
    /\ StrictlyIncreasing(SentFrameIds)
    /\ CompletePositions \subseteq {Len(ws_sent)}
    /\ RanToEnd <=> CompletePositions # {}
    /\ RanToEnd => /\ Len(ws_sent) = Len(ticks) + 1
                   /\ ~Readable(cap_pos)

C24_Witness ==
    /\ RanToEnd
    /\ Len(ticks) = 3
    /\ ws_sent[4] = CompleteMessage
    /\ \A k \in 1..3 : ws_sent[k].type = "frame"

\* the rows of the store that carry the session's filename and tick i's frame_id
RowsOf(i) ==
    {k \in 1..Len(db_rows) :
        /\ db_rows[k].video_filename = "video"
        /\ db_rows[k].frame_id = ticks[i].frame_id}

CadenceSet == s_pc \notin {"accept", "returned"}

\* C29: for every frame rate the medium reports (0, rates below 1 and non-integer
\* rates included) the cadence of the session is at least 1, so the tick test
\* 'frame_count mod cadence' is defined.
C29_CadenceAtLeastOne ==
    CadenceSet => (frame_interval >= 1 /\ abort # "cadence")

(***************************************************************************)
(* Properties of the worker's alert state and of its event delivery.       *)
(***************************************************************************)
\* this step passes a frame of camera c through the cooldown gate, which lets its
\* alert through
AlertGenerated(c) ==
    /\ Len(gate_log'[c]) = Len(gate_log[c]) + 1
    /\ gate_log'[c][Len(gate_log'[c])].allowed
    /\ gate_log'[c][Len(gate_log'[c])].persons > 0
    /\ last_alert_time'[c] = gate_log'[c][Len(gate_log'[c])].t

\* C30: last_alert_time[c] changes only in a step that generates an alert event for
\* camera c; a frame of another camera, a frame without a person, a frame whose
\* alert is suppressed and a frame whose decode or inference fails leave every
\* entry as it is.
C30_AlertStateOnlyByGate ==
    [][\A c \in Cameras :
          last_alert_time'[c] # last_alert_time[c] => AlertGenerated(c)]_vars

C30_Witness ==
    /\ Len(gate_log["camA"]) = 2
    /\ gate_log["camA"][1].allowed
    /\ gate_log["camA"][2].persons > 0 /\ ~gate_log["camA"][2].allowed
    /\ last_alert_time["camA"] = gate_log["camA"][1].t
    /\ Len(gate_log["camB"]) = 1
    /\ gate_log["camB"][1].persons = 0
    /\ last_alert_time["camB"] = 0

\* the event carries a frame: image bytes, at least one
CarriesFrame(ev) == ev.frame \notin {"None", "empty"}

\* C26: send_event posts a multipart body (the event metadata part and the binary
\* image part) exactly when the event carries a frame, and otherwise a JSON batch
\* envelope with exactly that one event; both go to /api/events/ingest.
C26_WireShape ==
    se_pc = "returned" =>
        /\ request.url = "/api/events/ingest"
        /\ request.event_parts = <<EventPayload(event)>>
        /\ CarriesFrame(event) <=> request.shape = "multipart"
        /\ ~CarriesFrame(event) <=> request.shape = "json"
        /\ request.frame_parts = IF CarriesFrame(event) THEN <<event.frame>> ELSE <<>>

C26_Witness ==
    /\ se_pc = "returned"
    /\ event.frame = "jpeg"
    /\ request.shape = "multipart"
    /\ request.frame_parts = <<"jpeg">>

\* a status of the 200 class
SuccessClass == {"200", "201", "204"}

\* C28: send_event returns True and counts the event in events_sent exactly when
\* the endpoint answers with a status of the 200 class; any other status and any
\* exception give False and leave events_sent as it was.
C28_SuccessIsStatus2xx ==
    se_pc = "returned" =>
        /\ success <=> response \in SuccessClass
        /\ events_sent = IF response \in SuccessClass THEN 1 ELSE 0

\* the frames of the gate's log whose alert event was generated
AlertEvents ==
    UNION {{e \in Range(gate_log[c]) : e.allowed} : c \in Cameras}

\* the POST of the alert event of frame seq on subscription i has not ended
PostInFlight(i, seq) ==
    subscriptions[i].pc = "post" /\ subscriptions[i].frame.s = seq

\* C27: for every event process_frame returns the worker makes at most one
\* delivery attempt, whatever its outcome; a failed delivery is not attempted
\* again and the event is not kept.
C27_NoRetry ==
    /\ \A p \in posts, q \in posts : (p.seq = q.seq /\ p.sub = q.sub) => p = q
    /\ \A p \in posts :
          /\ ~PostInFlight(p.sub, p.seq)
          /\ \E e \in AlertEvents : e.seq = p.seq /\ e.sub = p.sub
    /\ Cardinality(posts) <= Cardinality(AlertEvents)
    /\ events_sent = Cardinality({p \in posts : p.res = "200"})

C27_Witness ==
    \E p \in posts :
        /\ p.res = "exception"
        /\ subscriptions[p.sub].pc = "idle"
        /\ \E q \in posts : q.sub = p.sub /\ q.seq > p.seq /\ q.res = "200"
        /\ Cardinality(posts) = 2

(***************************************************************************)
(* Properties of the session's numbering and of the order of its sinks.    *)
(***************************************************************************)
\* C32: the frame_id reported for a tick is the zero-based position of the tick's
\* anchor frame in the native medium, for every tick and every cadence (stated
\* for the media all of whose frames can be read).
C32_FrameIdIsAnchorPosition ==
    bad_frames = {} => \A i \in 1..Len(ticks) : ticks[i].frame_id = ticks[i].anchor

\* the frame_ids of the rows the session has stored
StoredFrameIds == {db_rows[k].frame_id : k \in 1..Len(db_rows)}

\* C34: the record of a tick is appended only after the tick's 'frame' message has
\* been sent: the frame_ids stored are among the frame_ids pushed, and a tick whose
\* push failed has no record.
C34_StoreAfterPush ==
    /\ StoredFrameIds \subseteq Range(SentFrameIds)
    /\ abort = "viewer" =>
          /\ ticks[Len(ticks)].frame_id \notin StoredFrameIds
          /\ ticks[Len(ticks)].frame_id \notin Range(SentFrameIds)

C34_Witness ==
    /\ abort = "viewer"
    /\ Len(ticks) = 2
    /\ ticks[2].fault = "none"
    /\ StoredFrameIds = {ticks[1].frame_id}
    /\ SentFrameIds = <<ticks[1].frame_id>>

(***************************************************************************)
(* Properties of the cooldown window under failing deliveries.             *)
(***************************************************************************)
\* the positions of the allowed entries in the gate's log of camera c
AllowedAt(c) == {n \in 1..Len(gate_log[c]) : gate_log[c][n].allowed}

\* the POST of the alert of entry e ended in a failure
DeliveryFailed(e) ==
    \E p \in posts : p.seq = e.seq /\ p.sub = e.sub /\ p.res # "200"

\* C31: the cooldown window of a camera starts when the alert is generated,
\* whatever becomes of its delivery: last_alert_time[c] is the time of the last
\* alert generated for c, also while its POST is pending and after it failed, and
\* a person frame within alert_cooldown of an alert whose POST failed is suppressed.
C31_WindowStartsAtGeneration ==
    \A c \in Cameras :
        LET G == gate_log[c]
        IN  /\ last_alert_time[c] =
                  IF AllowedAt(c) = {} THEN 0
                  ELSE G[CHOOSE n \in AllowedAt(c) : \A k \in AllowedAt(c) : k <= n].t
            /\ \A n \in AllowedAt(c) :
                  DeliveryFailed(G[n]) =>
                      \A k \in (n + 1)..Len(G) :
                          (G[k].persons > 0 /\ G[k].t - G[n].t < alert_cooldown)
                              => ~G[k].allowed

C31_Witness ==
    \E c \in Cameras :
        LET G == gate_log[c]
        IN  /\ Len(G) = 2
            /\ G[1].allowed /\ DeliveryFailed(G[1])
            /\ G[2].sub = G[1].sub /\ G[2].seq > G[1].seq
            /\ G[2].persons > 0 /\ G[2].t > G[1].t /\ ~G[2].allowed
            /\ last_alert_time[c] = G[1].t

(***************************************************************************)
(* Properties of the stop signal before and during startup.                *)
(***************************************************************************)
\* a stop signal has been delivered to the worker object
StopRequested == early_signal \/ signals # <<>>

\* C33: a stop signal is never lost, whenever it is delivered after the worker
\* object is constructed: once one has been delivered, a run() that is under way
\* has running = False, so that it leaves its loop and reaches Stopped.
C33_StopSignalNeverLost ==
    (StopRequested /\ w_pc # "new") => ~running


(***************************************************************************)
(* Properties of two sessions that share the temporary frame files.        *)
(***************************************************************************)
\* session s has had an analyzer call open its images
Analyzed(s) == \E i \in 1..Len(analyses) : analyses[i].session = s

\* C35: when two sessions run concurrently in one process, every tick's analyzer
\* call reads exactly the frame files its own session wrote for that tick: no
\* other session overwrites or deletes them between the write and the end of the
\* analysis.
C35_AnalyzerReadsOwnFrames ==
    \A i \in 1..Len(analyses) : analyses[i].read = analyses[i].wrote

\* both sessions are in the middle of a tick, each past its analyzer call, and
\* the files the first wrote have been overwritten by the other
C35_Witness ==
    /\ p_pc["s1"] = "send" /\ p_pc["s2"] = "send"
    /\ Analyzed("s1") /\ Analyzed("s2")
    /\ analyses[Len(analyses)].session = "s2"
    /\ shared_tmp[0].session = "s2"
    /\ Len(p_wrote["s1"]) = 3

=============================================================================
